---------------------------- MODULE Spec2Model ----------------------------
(***************************************************************************)
(* World-position queries of get_world_position.py over a USD stage.       *)
(*                                                                         *)
(* The three portable entry points (get_world_position,                    *)
(* get_world_positions_batch, get_world_transform_components) delegate to  *)
(* pxr: UsdGeom.Xformable.ComputeLocalToWorldTransform, UsdGeom.XformCache *)
(* and Gf.Matrix4d extraction.  Those calls are modelled here by what pxr  *)
(* computes: row-vector affine matrices, local = op_n * ... * op_1,        *)
(* world = local * world(parent), attribute value resolution at a time     *)
(* code (default value, held / linearly interpolated time samples).        *)
(*                                                                         *)
(* Numbers are integers.  Rotation angles are multiples of 90 degrees so   *)
(* that sines and cosines are exact; sample times and values are chosen so *)
(* that linear interpolation is exact.  Floating-point rounding is not     *)
(* modelled.  The !resetXformStack! op is not modelled.                    *)
(*                                                                         *)
(* get_world_position_omniverse delegates to omni.usd of Omniverse Kit,    *)
(* modelled by its documented signature.  The module keeps no state of     *)
(* its own between calls: kept stands for the place where a cache held at  *)
(* module level would live, and no code writes it.                         *)
(***************************************************************************)
EXTENDS Integers, Sequences, FiniteSets, TLC

VARIABLES
    stage,     \* the USD stage: parent links and prims with their ops
    call,      \* the call the caller made last, NoCall between calls
    result,    \* what that call returned or raised
    stdout,    \* what that call printed
    computed,  \* how many world transforms that call computed
    batchCache, \* the XformCache of a batch call as it was at its return
    input,     \* the caller's prim list as it is after the call
    kit,       \* whether omni.usd can be imported
    kept,      \* the XformCache held at module level between calls
    earlier    \* an earlier call the caller remembers, with its outcome

vars == <<stage, call, result, stdout, computed, batchCache, input, kit, kept, earlier>>

---------------------------------------------------------------------------
(* Bounds of the model.                                                    *)

\* number of prims on the stage below the pseudo-root
MaxPrims == 3
\* longest prim list handed to the batch query
MaxBatch == 2

Prims == 1..MaxPrims
\* the pseudo-root "/" : parent of the top-level prims, never queried
PseudoRoot == 0

---------------------------------------------------------------------------
(* Gf vectors and matrices.  A Matrix4d that is affine is kept as its      *)
(* upper-left 3x3 block r (three rows) and its translation row t; a point  *)
(* p is transformed as the row vector p * M.                               *)

Vec3d(x, y, z) == <<x, y, z>>

Zero3 == Vec3d(0, 0, 0)

VecAdd(a, b) == Vec3d(a[1] + b[1], a[2] + b[2], a[3] + b[3])

\* row vector times 3x3 block
VecMul(v, r) ==
    Vec3d(v[1] * r[1][1] + v[2] * r[2][1] + v[3] * r[3][1],
          v[1] * r[1][2] + v[2] * r[2][2] + v[3] * r[3][2],
          v[1] * r[1][3] + v[2] * r[2][3] + v[3] * r[3][3])

Mat3Mul(a, b) == <<VecMul(a[1], b), VecMul(a[2], b), VecMul(a[3], b)>>

Identity3 == <<Vec3d(1, 0, 0), Vec3d(0, 1, 0), Vec3d(0, 0, 1)>>

Matrix4d(r, t) == [r |-> r, t |-> t]

IdentityMatrix == Matrix4d(Identity3, Zero3)

\* Gf.Matrix4d.__mul__ : a * b, the transform a followed by the transform b
MatMul(a, b) == Matrix4d(Mat3Mul(a.r, b.r), VecAdd(VecMul(a.t, b.r), b.t))

\* Gf.Matrix4d.ExtractTranslation
ExtractTranslation(m) == m.t

\* Gf.Matrix4d.ExtractRotationMatrix : the upper-left 3x3 block
ExtractRotationMatrix(m) == m.r

\* Gf.Matrix4d.ExtractRotation reads the same 3x3 block; the quaternion
\* Gf derives from it is kept abstract as that block
ExtractRotation(m) == m.r

\* largest r with r * r <= n : the square root, exact on perfect squares
ISqrt(n) == CHOOSE r \in 0..n : r * r <= n /\ (r + 1) * (r + 1) > n

\* Gf.Vec3d.GetLength
GetLength(v) == ISqrt(v[1] * v[1] + v[2] * v[2] + v[3] * v[3])

---------------------------------------------------------------------------
(* Usd.TimeCode : the default sentinel or a numeric time.                  *)

TimeCodeDefault == [isDefault |-> TRUE, t |-> 0]

TimeCode(t) == [isDefault |-> FALSE, t |-> t]

---------------------------------------------------------------------------
(* Transform ops.  An op has a type, an optional default value and time    *)
(* samples (a function from the sampled times to values).                  *)

NoSamples == [t \in {} |-> Zero3]

XformOp(type, hasDefault, default, samples) ==
    [type |-> type, hasDefault |-> hasDefault, default |-> default,
     samples |-> samples]

\* AddTranslateOp().Set(v) and friends: an op with a default value only
TranslateOp(v) == XformOp("translate", TRUE, v, NoSamples)
ScaleOp(v) == XformOp("scale", TRUE, v, NoSamples)
\* angle in quarter turns (90 degrees each)
RotateXOp(q) == XformOp("rotateX", TRUE, q, NoSamples)
RotateYOp(q) == XformOp("rotateY", TRUE, q, NoSamples)
RotateZOp(q) == XformOp("rotateZ", TRUE, q, NoSamples)
\* AddTransformOp().Set(Gf.Matrix4d): an explicit matrix
TransformOp(m) == XformOp("transform", TRUE, m, NoSamples)

\* the sine of a rotation in the opposite (left-hand) direction
SinQClockwise(q) == CASE q % 4 = 0 -> 0 [] q % 4 = 1 -> -1 [] q % 4 = 2 -> 0 [] OTHER -> 1

CosQ(q) == CASE q % 4 = 0 -> 1 [] q % 4 = 1 -> 0 [] q % 4 = 2 -> -1 [] OTHER -> 0
SinQ(q) == CASE q % 4 = 0 -> 0 [] q % 4 = 1 -> 1 [] q % 4 = 2 -> 0 [] OTHER -> -1

Max(S) == CHOOSE x \in S : \A y \in S : y <= x
Min(S) == CHOOSE x \in S : \A y \in S : x <= y

\* GfLerp on Vec3d between the samples at t0 < t1, evaluated at t
Lerp(t, t0, v0, t1, v1) ==
    Vec3d((v0[1] * (t1 - t) + v1[1] * (t - t0)) \div (t1 - t0),
          (v0[2] * (t1 - t) + v1[2] * (t - t0)) \div (t1 - t0),
          (v0[3] * (t1 - t) + v1[3] * (t - t0)) \div (t1 - t0))

\* UsdAttribute.Get(time) succeeds: a value resolves at this time code.
\* At the default time only the default value is consulted; at a numeric
\* time the time samples shadow the default value.
HasValue(op, time) ==
    IF time.isDefault THEN op.hasDefault
    ELSE DOMAIN op.samples # {} \/ op.hasDefault

\* a value resolution that holds the earlier sample instead of interpolating
GetValueHeld(op, time) ==
    LET ts == DOMAIN op.samples IN
    IF time.isDefault \/ ts = {} THEN op.default
    ELSE IF time.t <= Min(ts) THEN op.samples[Min(ts)]
    ELSE op.samples[Max({s \in ts : s <= time.t})]

\* a value resolution that prefers the time samples at every time code
GetValueSamplesFirst(op, time) ==
    LET ts == DOMAIN op.samples IN
    IF ts = {} THEN op.default
    ELSE IF time.isDefault \/ time.t <= Min(ts) THEN op.samples[Min(ts)]
    ELSE IF time.t >= Max(ts) THEN op.samples[Max(ts)]
    ELSE LET lo == Max({s \in ts : s <= time.t})
             hi == Min({s \in ts : s > time.t})
         IN IF lo = time.t THEN op.samples[lo]
            ELSE Lerp(time.t, lo, op.samples[lo], hi, op.samples[hi])

\* UsdAttribute.Get(time) : linear interpolation between the bracketing
\* samples, the boundary sample held outside the sampled range
GetValue(op, time) ==
    LET ts == DOMAIN op.samples IN
    IF time.isDefault \/ ts = {} THEN op.default
    ELSE IF time.t <= Min(ts) THEN op.samples[Min(ts)]
    ELSE IF time.t >= Max(ts) THEN op.samples[Max(ts)]
    ELSE LET lo == Max({s \in ts : s <= time.t})
             hi == Min({s \in ts : s > time.t})
         IN IF lo = time.t THEN op.samples[lo]
            ELSE Lerp(time.t, lo, op.samples[lo], hi, op.samples[hi])

\* UsdGeomXformOp.GetOpTransform(time) : the op's matrix, the identity when
\* no value resolves
GetOpTransform(op, time) ==
    IF ~HasValue(op, time) THEN IdentityMatrix
    ELSE LET v == GetValue(op, time) IN
         CASE op.type = "translate" -> Matrix4d(Identity3, Vec3d(v[1], v[2], v[3]))
           [] op.type = "scale" ->
                Matrix4d(<<Vec3d(v[1], 0, 0), Vec3d(0, v[2], 0), Vec3d(0, 0, v[3])>>, Zero3)
           [] op.type = "rotateX" ->
                Matrix4d(<<Vec3d(1, 0, 0),
                           Vec3d(0, CosQ(v), SinQ(v)),
                           Vec3d(0, -SinQ(v), CosQ(v))>>, Zero3)
           [] op.type = "rotateY" ->
                Matrix4d(<<Vec3d(CosQ(v), 0, -SinQ(v)),
                           Vec3d(0, 1, 0),
                           Vec3d(SinQ(v), 0, CosQ(v))>>, Zero3)
           [] op.type = "rotateZ" ->
                Matrix4d(<<Vec3d(CosQ(v), SinQ(v), 0),
                           Vec3d(-SinQ(v), CosQ(v), 0),
                           Vec3d(0, 0, 1)>>, Zero3)
           [] OTHER -> v

\* the ops multiplied from the first authored to the last
RECURSIVE OpsProductFirstToLast(_, _, _)
OpsProductFirstToLast(ops, k, time) ==
    IF k = 0 THEN IdentityMatrix
    ELSE MatMul(OpsProductFirstToLast(ops, k - 1, time), GetOpTransform(ops[k], time))

\* UsdGeomXformable.GetLocalTransformation : the ops are multiplied from the
\* last authored to the first, so the last op acts on a point first
RECURSIVE OpsProduct(_, _, _)
OpsProduct(ops, k, time) ==
    IF k = 0 THEN IdentityMatrix
    ELSE MatMul(GetOpTransform(ops[k], time), OpsProduct(ops, k - 1, time))

---------------------------------------------------------------------------
(* Prims.  A prim is Xformable with an ordered op list, or it is not       *)
(* (a Scope), and then it contributes the identity.                        *)

Prim(xformable, ops) == [xformable |-> xformable, ops |-> ops]

\* UsdGeom.Xform.Define / UsdGeom.Cube.Define, then Add...Op().Set(...)
Xform(ops) == Prim(TRUE, ops)
\* stage.DefinePrim(path, "Scope")
Scope == Prim(FALSE, <<>>)

\* prim.IsA(UsdGeom.Xformable)
IsXformable(prim) == stage.prim[prim].xformable

\* prim.GetPath() : prims are identified by their path
GetPath(prim) == prim

GetParent(prim) == stage.parent[prim]

LocalTransformation(prim, time) ==
    IF IsXformable(prim)
    THEN OpsProduct(stage.prim[prim].ops, Len(stage.prim[prim].ops), time)
    ELSE IdentityMatrix

\* prim and its ancestors below the pseudo-root
RECURSIVE Chain(_)
Chain(prim) ==
    IF prim = PseudoRoot THEN {} ELSE {prim} \cup Chain(GetParent(prim))

\* a composition that stops at the parent: local * local(parent)
ComputeLocalToParentTransform(prim, time) ==
    IF prim = PseudoRoot THEN IdentityMatrix
    ELSE IF GetParent(prim) = PseudoRoot THEN LocalTransformation(prim, time)
    ELSE MatMul(LocalTransformation(prim, time),
                LocalTransformation(GetParent(prim), time))

\* UsdGeom.Xformable(prim).ComputeLocalToWorldTransform(time)
RECURSIVE ComputeLocalToWorldTransform(_, _)
ComputeLocalToWorldTransform(prim, time) ==
    IF prim = PseudoRoot THEN IdentityMatrix
    ELSE MatMul(LocalTransformation(prim, time),
                ComputeLocalToWorldTransform(GetParent(prim), time))

---------------------------------------------------------------------------
(* UsdGeom.XformCache : the world transforms computed so far, at one time. *)
(* valid holds the prims with an entry, ctm the entries; computed counts   *)
(* the entries made.                                                       *)

XformCache(time) ==
    [time |-> time, valid |-> {}, ctm |-> <<>>, computed |-> 0]

\* a cache that stores a prim's local transform as its world transform
RECURSIVE CacheFillLocal(_, _)
CacheFillLocal(cache, prim) ==
    IF prim = PseudoRoot \/ prim \in cache.valid THEN cache
    ELSE LET c == CacheFillLocal(cache, GetParent(prim))
             m == LocalTransformation(prim, cache.time)
         IN [c EXCEPT !.valid = @ \cup {prim}, !.ctm = (prim :> m) @@ @,
                      !.computed = @ + 1]

\* a cache that never finds an entry: prim and every ancestor are computed
\* again at each request
RECURSIVE CacheFillAlways(_, _)
CacheFillAlways(cache, prim) ==
    IF prim = PseudoRoot THEN cache
    ELSE LET c == CacheFillAlways(cache, GetParent(prim))
             parentCtm == IF GetParent(prim) = PseudoRoot THEN IdentityMatrix
                          ELSE c.ctm[GetParent(prim)]
             m == MatMul(LocalTransformation(prim, cache.time), parentCtm)
         IN [c EXCEPT !.valid = @ \cup {prim}, !.ctm = (prim :> m) @@ @,
                      !.computed = @ + 1]

\* the cache after XformCache.GetLocalToWorldTransform(prim): an entry for
\* prim and for each of its ancestors, every missing one computed from its
\* parent's entry
RECURSIVE CacheFill(_, _)
CacheFill(cache, prim) ==
    IF prim = PseudoRoot \/ prim \in cache.valid THEN cache
    ELSE LET c == CacheFill(cache, GetParent(prim))
             parentCtm == IF GetParent(prim) = PseudoRoot THEN IdentityMatrix
                          ELSE c.ctm[GetParent(prim)]
             m == MatMul(LocalTransformation(prim, cache.time), parentCtm)
         IN [c EXCEPT !.valid = @ \cup {prim}, !.ctm = (prim :> m) @@ @,
                      !.computed = @ + 1]

---------------------------------------------------------------------------
(* The entry points.                                                       *)

Call(fn, prims, time) == [fn |-> fn, prims |-> prims, time |-> time]

\* raise RuntimeError(f"Prim at path {prim.GetPath()} is not transformable")
Raise(path) == [raised |-> TRUE, path |-> path, value |-> <<>>]

Return(value) == [raised |-> FALSE, path |-> PseudoRoot, value |-> value]

\* get_world_position without the IsA(UsdGeom.Xformable) check
get_world_position_unchecked(prim, time) ==
    Return(ExtractTranslation(ComputeLocalToWorldTransform(prim, time)))

\* a scale op of the prim or of one of its ancestors has a zero component
HasZeroScale(prim, time) ==
    \E a \in Chain(prim) : \E k \in 1..Len(stage.prim[a].ops) :
        LET op == stage.prim[a].ops[k]
        IN /\ op.type = "scale"
           /\ HasValue(op, time)
           /\ \E i \in 1..3 : GetValue(op, time)[i] = 0

\* get_world_position refusing a degenerate scale
get_world_position_fatal(prim, time) ==
    IF ~IsXformable(prim) \/ HasZeroScale(prim, time) THEN Raise(GetPath(prim))
    ELSE Return(ExtractTranslation(ComputeLocalToWorldTransform(prim, time)))

\* get_world_position(prim, time)
get_world_position(prim, time) ==
    IF ~IsXformable(prim) THEN Raise(GetPath(prim))
    ELSE Return(ExtractTranslation(ComputeLocalToWorldTransform(prim, time)))

\* raise ImportError("omni.usd module not available. ...")
RaiseImportError ==
    [raised |-> TRUE, path |-> PseudoRoot, value |-> <<"ImportError">>]

\* omni.usd.get_world_transform_matrix(prim, time_code): the local-to-world
\* matrix of the prim; time_code is optional and defaults to
\* Usd.TimeCode.Default()
get_world_transform_matrix(prim, time_code) ==
    ComputeLocalToWorldTransform(prim, time_code)

\* get_world_position_omniverse(prim, time): the helper is called with the
\* prim alone, so it evaluates at its default time code
get_world_position_omniverse(prim, time) ==
    IF ~kit THEN RaiseImportError
    ELSE Return(ExtractTranslation(
                    get_world_transform_matrix(prim, TimeCodeDefault)))

\* the lengths of the columns of the 3x3 block instead of its rows
ExtractScaleColumns(m) ==
    LET r == ExtractRotationMatrix(m)
    IN Vec3d(GetLength(Vec3d(r[1][1], r[2][1], r[3][1])),
             GetLength(Vec3d(r[1][2], r[2][2], r[3][2])),
             GetLength(Vec3d(r[1][3], r[2][3], r[3][3])))

\* scale = Gf.Vec3d(*(v.GetLength() for v in ExtractRotationMatrix()))
ExtractScale(m) ==
    LET rows == ExtractRotationMatrix(m)
    IN Vec3d(GetLength(rows[1]), GetLength(rows[2]), GetLength(rows[3]))

\* get_world_transform_components decomposing the transform of the default
\* time
get_world_transform_components_default(prim, time) ==
    IF ~IsXformable(prim) THEN Raise(GetPath(prim))
    ELSE LET world_transform == ComputeLocalToWorldTransform(prim, TimeCodeDefault)
         IN Return([translation |-> ExtractTranslation(world_transform),
                    rotation |-> ExtractRotation(world_transform),
                    scale |-> ExtractScale(world_transform)])

\* get_world_transform_components(prim, time)
get_world_transform_components(prim, time) ==
    IF ~IsXformable(prim) THEN Raise(GetPath(prim))
    ELSE LET world_transform == ComputeLocalToWorldTransform(prim, time)
         IN Return([translation |-> ExtractTranslation(world_transform),
                    rotation |-> ExtractRotation(world_transform),
                    scale |-> ExtractScale(world_transform)])

\* the loop body printing no warning for a prim that is not transformable
BatchStepSilent(acc, prim) ==
    IF ~IsXformable(prim)
    THEN [acc EXCEPT !.positions = Append(@, Vec3d(0, 0, 0))]
    ELSE LET c == CacheFill(acc.cache, prim)
         IN [acc EXCEPT !.positions = Append(@, ExtractTranslation(c.ctm[prim])),
                        !.cache = c]

\* the loop body appending nothing for a prim that is not transformable
BatchStepSkip(acc, prim) ==
    IF ~IsXformable(prim)
    THEN [acc EXCEPT !.out = Append(@, GetPath(prim))]
    ELSE LET c == CacheFill(acc.cache, prim)
         IN [acc EXCEPT !.positions = Append(@, ExtractTranslation(c.ctm[prim])),
                        !.cache = c]

\* the loop body dropping a prim that is not transformable from the list
BatchStepRemove(acc, prim) ==
    IF ~IsXformable(prim)
    THEN [acc EXCEPT !.positions = Append(@, Vec3d(0, 0, 0)),
                     !.out = Append(@, GetPath(prim)),
                     !.prims = SelectSeq(@, LAMBDA p : p # prim)]
    ELSE LET c == CacheFill(acc.cache, prim)
         IN [acc EXCEPT !.positions = Append(@, ExtractTranslation(c.ctm[prim])),
                        !.cache = c]

\* one pass of the loop body of get_world_positions_batch: acc holds the
\* positions so far, the warnings printed, the cache and the list iterated
BatchStep(acc, prim) ==
    IF ~IsXformable(prim)
    THEN [acc EXCEPT !.positions = Append(@, Vec3d(0, 0, 0)),
                     !.out = Append(@, GetPath(prim))]
    ELSE LET c == CacheFill(acc.cache, prim)
         IN [acc EXCEPT !.positions = Append(@, ExtractTranslation(c.ctm[prim])),
                        !.cache = c]

\* for prim in prims, from element i on
RECURSIVE BatchLoop(_, _, _)
BatchLoop(prims, i, acc) ==
    IF i > Len(prims) THEN acc
    ELSE BatchLoop(prims, i + 1, BatchStep(acc, prims[i]))

\* get_world_positions_batch(prims, time)
get_world_positions_batch(prims, time) ==
    BatchLoop(prims, 1, [positions |-> <<>>, out |-> <<>>,
                         cache |-> XformCache(time), prims |-> prims])

---------------------------------------------------------------------------
(* Actions.  The caller is sequential: it makes one call, reads what the   *)
(* call returned or raised and printed, and only then makes the next call. *)

NoCall == Call("none", <<>>, TimeCodeDefault)

\* no batch cache exists: outside a batch call the local is gone
NoCache == XformCache(TimeCodeDefault)

GetWorldPosition(prim, time) ==
    /\ call = NoCall
    /\ call' = Call("get_world_position", <<prim>>, time)
    /\ result' = get_world_position(prim, time)
    /\ computed' = IF IsXformable(prim) THEN Cardinality(Chain(prim)) ELSE 0
    /\ stdout' = <<>>
    /\ batchCache' = NoCache
    /\ input' = <<prim>>
    /\ UNCHANGED <<stage, kit, kept, earlier>>

GetWorldTransformComponents(prim, time) ==
    /\ call = NoCall
    /\ call' = Call("get_world_transform_components", <<prim>>, time)
    /\ result' = get_world_transform_components(prim, time)
    /\ computed' = IF IsXformable(prim) THEN Cardinality(Chain(prim)) ELSE 0
    /\ stdout' = <<>>
    /\ batchCache' = NoCache
    /\ input' = <<prim>>
    /\ UNCHANGED <<stage, kit, kept, earlier>>

\* a batch call filling one cache held at module level, created by the
\* first call and never replaced
GetWorldPositionsBatchKept(prims, time) ==
    LET start == IF kept = NoCache THEN XformCache(time) ELSE kept
        r == BatchLoop(prims, 1, [positions |-> <<>>, out |-> <<>>,
                                  cache |-> [start EXCEPT !.computed = 0],
                                  prims |-> prims])
    IN
    /\ call = NoCall
    /\ call' = Call("get_world_positions_batch", prims, time)
    /\ result' = Return(r.positions)
    /\ computed' = r.cache.computed
    /\ stdout' = r.out
    /\ batchCache' = r.cache
    /\ kept' = r.cache
    /\ input' = r.prims
    /\ UNCHANGED <<stage, kit, earlier>>

\* a batch call filling a cache held at module level that is replaced only
\* when the time of the call differs from the time of the cache
GetWorldPositionsBatchKeptPerTime(prims, time) ==
    LET start == IF kept.time = time THEN kept ELSE XformCache(time)
        r == BatchLoop(prims, 1, [positions |-> <<>>, out |-> <<>>,
                                  cache |-> [start EXCEPT !.computed = 0],
                                  prims |-> prims])
    IN
    /\ call = NoCall
    /\ call' = Call("get_world_positions_batch", prims, time)
    /\ result' = Return(r.positions)
    /\ computed' = r.cache.computed
    /\ stdout' = r.out
    /\ batchCache' = r.cache
    /\ kept' = r.cache
    /\ input' = r.prims
    /\ UNCHANGED <<stage, kit, earlier>>

GetWorldPositionsBatch(prims, time) ==
    /\ call = NoCall
    /\ \E r \in {get_world_positions_batch(prims, time)} :
          /\ call' = Call("get_world_positions_batch", prims, time)
          /\ result' = Return(r.positions)
          /\ computed' = r.cache.computed
          /\ stdout' = r.out
          /\ batchCache' = r.cache
          /\ input' = r.prims
    /\ UNCHANGED <<stage, kit, kept, earlier>>

GetWorldPositionOmniverse(prim, time) ==
    /\ call = NoCall
    /\ call' = Call("get_world_position_omniverse", <<prim>>, time)
    /\ result' = get_world_position_omniverse(prim, time)
    /\ computed' = IF kit THEN Cardinality(Chain(prim)) ELSE 0
    /\ stdout' = <<>>
    /\ batchCache' = NoCache
    /\ input' = <<prim>>
    /\ UNCHANGED <<stage, kit, kept, earlier>>

\* the caller has read the outcome of its last call
Consume ==
    /\ call # NoCall
    /\ call' = NoCall
    /\ result' = Return(<<>>)
    /\ stdout' = <<>>
    /\ computed' = 0
    /\ batchCache' = NoCache
    /\ input' = <<>>
    /\ UNCHANGED <<stage, kit, kept, earlier>>

\* what the caller remembers of a call: the call, the stage it was made on
\* and everything it produced
Outcome(c, st, res, out, ch) ==
    [call |-> c, stage |-> st, result |-> res, stdout |-> out, cache |-> ch]

\* the caller remembers no stage yet
NoStage == [parent |-> <<>>, prim |-> <<>>]

\* the caller keeps the outcome of its last call to compare a later call
\* with it
Remember ==
    /\ call # NoCall
    /\ earlier' = Outcome(call, stage, result, stdout, batchCache)
    /\ call' = NoCall
    /\ result' = Return(<<>>)
    /\ stdout' = <<>>
    /\ computed' = 0
    /\ batchCache' = NoCache
    /\ input' = <<>>
    /\ UNCHANGED <<stage, kit, kept>>

\* between two calls the caller authors the last prim anew
Author(kind) ==
    /\ call = NoCall
    /\ stage.prim[MaxPrims] # kind
    /\ stage' = [stage EXCEPT !.prim[MaxPrims] = kind]
    /\ UNCHANGED <<call, result, stdout, computed, batchCache, input, kit,
                   kept, earlier>>

---------------------------------------------------------------------------
(* Stages and inputs.                                                      *)

\* every prim hangs under an earlier prim; prim 1 is the default prim /World
Hierarchies ==
    {p \in [Prims -> {PseudoRoot} \cup Prims] :
        /\ p[1] = PseudoRoot
        /\ \A n \in Prims \ {1} : p[n] \in 1..(n - 1)}

\* the prims 1..n, prim k being one of kindsOf[k]
RECURSIVE PrimTables(_, _)
PrimTables(kindsOf, n) ==
    IF n = 0 THEN {<<>>}
    ELSE {Append(t, k) : t \in PrimTables(kindsOf, n - 1), k \in kindsOf[n]}

\* the stages whose prim n is one of kindsOf[n]
Stages(kindsOf) ==
    {[parent |-> p, prim |-> k] :
        p \in Hierarchies, k \in PrimTables(kindsOf, MaxPrims)}

BatchInputs == UNION {[1..n -> Prims] : n \in 0..MaxBatch}

InitState(kindsOf, kits) ==
    /\ stage \in Stages(kindsOf)
    /\ call = NoCall
    /\ result = Return(<<>>)
    /\ stdout = <<>>
    /\ computed = 0
    /\ batchCache = NoCache
    /\ input = <<>>
    /\ kit \in kits
    /\ kept = NoCache
    /\ earlier = Outcome(NoCall, NoStage, Return(<<>>), <<>>, NoCache)

\* a plain OpenUSD environment: omni.usd is not installed
InitOver(kindsOf) == InitState(kindsOf, {FALSE})

NextOver(times) ==
    \/ \E prim \in Prims, time \in times : GetWorldPosition(prim, time)
    \/ \E prims \in BatchInputs, time \in times : GetWorldPositionsBatch(prims, time)
    \/ \E prim \in Prims, time \in times : GetWorldTransformComponents(prim, time)
    \/ Consume

\* translate-only hierarchies mixed with Scopes and prims without ops
HierKinds ==
    {Scope, Xform(<<>>), Xform(<<TranslateOp(Vec3d(1, 2, 3))>>),
     Xform(<<TranslateOp(Vec3d(10, 0, 0))>>)}

HierTimes == {TimeCodeDefault, TimeCode(1)}

Init == InitOver([n \in Prims |-> HierKinds])

Next == NextOver(HierTimes)

Spec == Init /\ [][Next]_vars

\* op order inside a prim: translated, translated-then-scaled and rotated
\* prims above and below each other
OpOrderKinds ==
    {Xform(<<>>),
     Xform(<<TranslateOp(Vec3d(5, 0, 0))>>),
     Xform(<<TranslateOp(Vec3d(1, 2, 3))>>),
     Xform(<<TranslateOp(Vec3d(10, 0, 0)), ScaleOp(Vec3d(2, 2, 2))>>),
     Xform(<<TranslateOp(Vec3d(1, 2, 3)), ScaleOp(Vec3d(2, 3, 4))>>),
     Xform(<<RotateZOp(1)>>)}

OpOrderTimes == {TimeCodeDefault}

InitOpOrder == InitOver([n \in Prims |-> OpOrderKinds])

NextOpOrder == NextOver(OpOrderTimes)

SpecOpOrder == InitOpOrder /\ [][NextOpOrder]_vars

\* a matrix op whose rows are not orthogonal: x is sheared towards y
ShearMatrix ==
    Matrix4d(<<Vec3d(3, 4, 0), Vec3d(0, 1, 0), Vec3d(0, 0, 1)>>, Zero3)

\* decomposition: translate-rotate-scale prims (one mirrored), a sheared
\* prim, and translated or rotated prims as unscaled ancestors
DecomposeKinds ==
    {Xform(<<>>),
     Xform(<<TranslateOp(Vec3d(1, 2, 3))>>),
     Xform(<<RotateZOp(1)>>),
     Xform(<<TranslateOp(Vec3d(10, 20, 30)), RotateYOp(1), ScaleOp(Vec3d(2, 3, 4))>>),
     Xform(<<TranslateOp(Vec3d(10, 20, 30)), RotateXOp(3), ScaleOp(Vec3d(-2, 3, 4))>>),
     Xform(<<TransformOp(ShearMatrix)>>)}

InitDecompose == InitOver([n \in Prims |-> DecomposeKinds])

SpecDecompose == InitDecompose /\ [][NextOpOrder]_vars

\* prims whose scale has a zero component, among ordinary ones
DegenerateKinds ==
    {Scope,
     Xform(<<TranslateOp(Vec3d(1, 2, 3))>>),
     Xform(<<TranslateOp(Vec3d(10, 0, 0)), ScaleOp(Vec3d(2, 0, 2))>>),
     Xform(<<ScaleOp(Vec3d(0, 0, 0))>>)}

InitDegenerate == InitOver([n \in Prims |-> DegenerateKinds])

SpecDegenerate == InitDegenerate /\ [][NextOpOrder]_vars

\* translate_op.Set(value, time) at some of the times 0, 2, 4
SampleMaps ==
    UNION {[ts -> {Vec3d(0, 0, 0), Vec3d(4, 0, 0), Vec3d(8, 4, 0)}] :
              ts \in SUBSET {0, 2, 4}}

\* a translate op with time samples, with or without a default value
AnimatedKinds ==
    {Xform(<<XformOp("translate", FALSE, Zero3, sm)>>) : sm \in SampleMaps}
    \cup {Xform(<<XformOp("translate", TRUE, Vec3d(12, 0, 0), sm)>>) : sm \in SampleMaps}

\* the last prim is animated, below statically translated prims
InitAnimated ==
    InitOver([n \in Prims |->
                IF n = MaxPrims THEN AnimatedKinds
                ELSE {Xform(<<TranslateOp(Vec3d(1, 2, 3))>>)}])

AnimatedTimes ==
    {TimeCodeDefault, TimeCode(1), TimeCode(2), TimeCode(3), TimeCode(5)}

NextAnimated == NextOver(AnimatedTimes)

SpecAnimated == InitAnimated /\ [][NextAnimated]_vars

\* two ways of animating the last prim: a default value and one sample
HistoryKinds ==
    {Xform(<<XformOp("translate", TRUE, Vec3d(12, 0, 0), 2 :> Vec3d(4, 0, 0))>>),
     Xform(<<XformOp("translate", TRUE, Vec3d(8, 4, 0), 2 :> Vec3d(0, 0, 0))>>)}

\* the last prim is animated, under a Scope root and translated prims
InitHistory ==
    InitOver([n \in Prims |->
                IF n = MaxPrims THEN HistoryKinds
                ELSE IF n = 1 THEN {Scope}
                ELSE {Xform(<<TranslateOp(Vec3d(1, 2, 3))>>)}])

HistoryTimes == {TimeCodeDefault, TimeCode(2)}

\* the animated stages, inside Omniverse Kit and outside
InitOmniverse ==
    InitState([n \in Prims |->
                 IF n = MaxPrims THEN HistoryKinds
                 ELSE {Xform(<<TranslateOp(Vec3d(1, 2, 3))>>)}], BOOLEAN)

NextOmniverse ==
    \/ \E prim \in Prims, time \in HistoryTimes :
          GetWorldPositionOmniverse(prim, time)
    \/ NextOver(HistoryTimes)

SpecOmniverse == InitOmniverse /\ [][NextOmniverse]_vars

\* lists naming no prim twice
HistoryInputs ==
    {prims \in BatchInputs :
        \A i, j \in 1..Len(prims) : prims[i] = prims[j] => i = j}

\* a caller that repeats calls, remembers outcomes and edits the stage
\* between calls
NextHistory ==
    \/ \E prim \in Prims, time \in HistoryTimes : GetWorldPosition(prim, time)
    \/ \E prims \in HistoryInputs, time \in HistoryTimes :
          GetWorldPositionsBatch(prims, time)
    \/ \E prim \in Prims, time \in HistoryTimes :
          GetWorldTransformComponents(prim, time)
    \/ Consume
    \/ Remember
    \/ \E kind \in HistoryKinds : Author(kind)

SpecHistory == InitHistory /\ [][NextHistory]_vars

---------------------------------------------------------------------------
(* Properties.                                                             *)

IsSingleQuery ==
    call.fn \in {"get_world_position", "get_world_transform_components"}

IsBatchQuery == call.fn = "get_world_positions_batch"

\* C1: a single-node query raises RuntimeError exactly when its prim is not
\* transformable; the error names the prim's path and no transform has been
\* computed when it is raised; for a transformable prim nothing is raised.
C1_InvalidNodeKind ==
    IsSingleQuery =>
        /\ result.raised <=> ~stage.prim[call.prims[1]].xformable
        /\ result.raised => result.path = call.prims[1] /\ computed = 0
        /\ ~result.raised => computed >= 1

\* a decomposition query on a Scope below a transformed prim has raised
C1_Witness ==
    /\ call.fn = "get_world_transform_components"
    /\ result.raised
    /\ result.path = call.prims[1]
    /\ stage.parent[call.prims[1]] # PseudoRoot
    /\ stage.prim[stage.parent[call.prims[1]]].ops # <<>>

\* the input positions of the batch call that hold a non-transformable prim
BadPositions == {i \in 1..Len(call.prims) : ~stage.prim[call.prims[i]].xformable}

\* C2: the batch query never fails on a non-transformable element: each
\* such position holds (0,0,0) and has one warning, in input order; every
\* other position holds its prim's world position whatever surrounds it.
C2_BatchPlaceholder ==
    IsBatchQuery =>
        /\ ~result.raised
        /\ \A i \in BadPositions : result.value[i] = <<0, 0, 0>>
        /\ stdout = SelectSeq(call.prims, LAMBDA p : ~stage.prim[p].xformable)
        /\ Len(stdout) = Cardinality(BadPositions)
        /\ \A i \in (1..Len(call.prims)) \ BadPositions :
              result.value[i] =
                  ComputeLocalToWorldTransform(call.prims[i], call.time).t

\* a Scope first, then a translated prim below a translated parent
C2_Witness ==
    /\ IsBatchQuery
    /\ Len(call.prims) = 2
    /\ BadPositions = {1}
    /\ stdout = <<call.prims[1]>>
    /\ result.value[1] = <<0, 0, 0>>
    /\ result.value[2] = <<11, 2, 3>>

\* C3: the batch result has the length of the input and its element i is
\* the result for input element i alone (duplicates get equal elements);
\* the empty input gives the empty result without error.
C3_BatchOneToOne ==
    IsBatchQuery =>
        /\ ~result.raised
        /\ Len(result.value) = Len(call.prims)
        /\ \A i \in 1..Len(call.prims) :
              result.value[i] =
                  get_world_positions_batch(<<call.prims[i]>>, call.time).positions[1]
        /\ call.prims = <<>> => result.value = <<>> /\ stdout = <<>>

\* a batch of two where a transformable prim follows a Scope
C3_Witness ==
    /\ IsBatchQuery
    /\ Len(call.prims) = MaxBatch
    /\ Len(result.value) = MaxBatch
    /\ 1 \in BadPositions
    /\ MaxBatch \notin BadPositions
    /\ result.value[MaxBatch] # <<0, 0, 0>>

\* C4 as stated: batch element i equals get_world_position(prims[i], time)
\* for every i
C4_BatchEqualsSingleAll ==
    IsBatchQuery =>
        \A i \in 1..Len(call.prims) :
            get_world_position(call.prims[i], call.time) = Return(result.value[i])

\* C4 (amended): batch element i equals get_world_position(prims[i], time)
\* for every i whose prim is transformable; for the others the single query
\* raises and the batch holds the placeholder.
C4_BatchEqualsSingle ==
    IsBatchQuery =>
        \A i \in 1..Len(call.prims) :
            IF stage.prim[call.prims[i]].xformable
            THEN get_world_position(call.prims[i], call.time) = Return(result.value[i])
            ELSE get_world_position(call.prims[i], call.time).raised

\* a batch over a child and then its parent, both translated
C4_Witness ==
    /\ IsBatchQuery
    /\ Len(call.prims) = 2
    /\ BadPositions = {}
    /\ stage.parent[call.prims[1]] = call.prims[2]
    /\ result.value[2] # <<0, 0, 0>>
    /\ result.value[1] # result.value[2]
    /\ computed = Cardinality(Chain(call.prims[1]))

\* the ops of a prim are translate ops with a constant value
TranslateOnly(prim) ==
    \A k \in 1..Len(stage.prim[prim].ops) :
        /\ stage.prim[prim].ops[k].type = "translate"
        /\ stage.prim[prim].ops[k].hasDefault
        /\ DOMAIN stage.prim[prim].ops[k].samples = {}

RECURSIVE SumOps(_, _)
SumOps(ops, k) ==
    IF k = 0 THEN <<0, 0, 0>>
    ELSE LET s == SumOps(ops, k - 1)
         IN <<s[1] + ops[k].default[1], s[2] + ops[k].default[2],
              s[3] + ops[k].default[3]>>

\* the sum of the translations of a prim and of its ancestors
RECURSIVE SumTranslations(_)
SumTranslations(prim) ==
    IF prim = PseudoRoot THEN <<0, 0, 0>>
    ELSE LET a == SumTranslations(stage.parent[prim])
             b == SumOps(stage.prim[prim].ops, Len(stage.prim[prim].ops))
         IN <<a[1] + b[1], a[2] + b[2], a[3] + b[3]>>

\* C5: when a prim and all its ancestors carry only translate ops, its world
\* position is the sum of their translations, at every depth; with no ops
\* anywhere on the chain it is (0,0,0).
C5_TranslationAdditivity ==
    /\ call.fn = "get_world_position"
    /\ ~result.raised
    /\ \A p \in Chain(call.prims[1]) : TranslateOnly(p)
    => /\ result.value = SumTranslations(call.prims[1])
       /\ (\A p \in Chain(call.prims[1]) : stage.prim[p].ops = <<>>)
            => result.value = <<0, 0, 0>>

\* the deepest chain, every prim on it translated
C5_Witness ==
    /\ call.fn = "get_world_position"
    /\ Cardinality(Chain(call.prims[1])) = MaxPrims
    /\ \A p \in Chain(call.prims[1]) :
          TranslateOnly(p) /\ Len(stage.prim[p].ops) = 1
    /\ result.value = SumTranslations(call.prims[1])
    /\ result.value[2] # 0
    /\ result.value[1] > 10

\* an op of the given type with a constant (default) value and no samples
IsConstOp(op, type) ==
    op.type = type /\ op.hasDefault /\ DOMAIN op.samples = {}

\* the proper ancestors of a prim
Ancestors(prim) == Chain(stage.parent[prim])

\* no ancestor of the prim carries an op
UntransformedAbove(prim) == \A a \in Ancestors(prim) : stage.prim[a].ops = <<>>

\* the prim queried by a single-node call, and its ops
Queried == call.prims[1]
QueriedOps == stage.prim[Queried].ops

\* get_world_position has returned for a prim whose parent has ops
\* <<first, second>> ... and whose own single op is a constant translate
ChildOfParentWith(types) ==
    /\ call.fn = "get_world_position"
    /\ ~result.raised
    /\ Len(QueriedOps) = 1
    /\ IsConstOp(QueriedOps[1], "translate")
    /\ stage.parent[Queried] # PseudoRoot
    /\ LET pops == stage.prim[stage.parent[Queried]].ops
       IN /\ Len(pops) = Len(types)
          /\ \A k \in 1..Len(types) : IsConstOp(pops[k], types[k])
    /\ UntransformedAbove(stage.parent[Queried])

\* C6: a parent with ops translate p, scale s (in that order, under
\* untransformed ancestors) and a child with the single op translate c:
\* the child's world position is p + s*c component-wise.
C6_ScalePropagation ==
    ChildOfParentWith(<<"translate", "scale">>) =>
        LET pops == stage.prim[stage.parent[Queried]].ops
            p == pops[1].default
            sc == pops[2].default
            c == QueriedOps[1].default
        IN result.value =
              <<p[1] + sc[1] * c[1], p[2] + sc[2] * c[2], p[3] + sc[3] * c[3]>>

\* parent translate (10,0,0), scale (2,2,2), child translate (5,0,0):
\* (20,0,0), not s*(p+c) = (30,0,0)
C6_Witness ==
    /\ ChildOfParentWith(<<"translate", "scale">>)
    /\ stage.prim[stage.parent[Queried]].ops[1].default = <<10, 0, 0>>
    /\ stage.prim[stage.parent[Queried]].ops[2].default = <<2, 2, 2>>
    /\ QueriedOps[1].default = <<5, 0, 0>>
    /\ result.value = <<20, 0, 0>>

\* C7: a parent rotated 90 degrees about Z (under untransformed ancestors)
\* and a child with the single op translate (x,y,z): the child's world
\* position is (-y, x, z).
C7_RotationPropagation ==
    /\ ChildOfParentWith(<<"rotateZ">>)
    /\ stage.prim[stage.parent[Queried]].ops[1].default = 1
    => LET c == QueriedOps[1].default
       IN result.value = <<-c[2], c[1], c[3]>>

\* child translate (1,2,3) below the rotated parent: (-2,1,3)
C7_Witness ==
    /\ ChildOfParentWith(<<"rotateZ">>)
    /\ stage.prim[stage.parent[Queried]].ops[1].default = 1
    /\ QueriedOps[1].default = <<1, 2, 3>>
    /\ result.value = <<-2, 1, 3>>

\* get_world_position has returned for a prim with one translate op, at
\* a time, below ancestors with constant translations only
TranslateQuery ==
    /\ call.fn = "get_world_position"
    /\ ~result.raised
    /\ Len(QueriedOps) = 1
    /\ QueriedOps[1].type = "translate"
    /\ \A a \in Ancestors(Queried) : TranslateOnly(a)

\* the world position relative to the ancestors' translations
LocalPart ==
    LET base == SumTranslations(stage.parent[Queried])
    IN <<result.value[1] - base[1], result.value[2] - base[2],
         result.value[3] - base[3]>>

\* C8: a translate op with time samples, queried at a numeric time: at a
\* sample time the sample's value; strictly between two adjacent samples
\* their linear interpolation; before the first or after the last sample
\* the boundary sample's value.
C8_TimeSamples ==
    TranslateQuery /\ ~call.time.isDefault /\ DOMAIN QueriedOps[1].samples # {} =>
        LET sm == QueriedOps[1].samples
            ts == DOMAIN sm
            t == call.time.t
        IN /\ t \in ts => LocalPart = sm[t]
           /\ \A first \in ts :
                 (\A u \in ts : first <= u) /\ t < first => LocalPart = sm[first]
           /\ \A last \in ts :
                 (\A u \in ts : u <= last) /\ t > last => LocalPart = sm[last]
           /\ \A t0, t1 \in ts :
                 (t0 < t /\ t < t1 /\ ~\E u \in ts : t0 < u /\ u < t1) =>
                    \A i \in 1..3 :
                       (t1 - t0) * LocalPart[i] =
                           sm[t0][i] * (t1 - t) + sm[t1][i] * (t - t0)

\* samples 0:(0,0,0), 2:(4,0,0), 4:(8,4,0) queried at time 3: (6,2,0)
C8_Witness ==
    /\ TranslateQuery
    /\ call.time = TimeCode(3)
    /\ DOMAIN QueriedOps[1].samples = {0, 2, 4}
    /\ QueriedOps[1].samples[0] = <<0, 0, 0>>
    /\ QueriedOps[1].samples[2] = <<4, 0, 0>>
    /\ QueriedOps[1].samples[4] = <<8, 4, 0>>
    /\ LocalPart = <<6, 2, 0>>

\* the earliest sample of the queried op
EarliestSample ==
    LET sm == QueriedOps[1].samples
    IN sm[CHOOSE first \in DOMAIN sm : \A u \in DOMAIN sm : first <= u]

\* the first two parts of C9: with a default value and samples, the default
\* time gives the default value and a sampled time gives that sample
DefaultAndSampled ==
    TranslateQuery /\ QueriedOps[1].hasDefault =>
        /\ call.time.isDefault => LocalPart = QueriedOps[1].default
        /\ ~call.time.isDefault /\ call.time.t \in DOMAIN QueriedOps[1].samples
              => LocalPart = QueriedOps[1].samples[call.time.t]

SamplesOnlyAtDefaultTime ==
    /\ TranslateQuery
    /\ ~QueriedOps[1].hasDefault
    /\ DOMAIN QueriedOps[1].samples # {}
    /\ call.time.isDefault

\* C9 as stated: default value at the default time, the sample's value at a
\* sampled time, and with samples but no default value the default time
\* behaves as clamped to the earliest sample
C9_DefaultClampsToEarliest ==
    /\ DefaultAndSampled
    /\ SamplesOnlyAtDefaultTime => LocalPart = EarliestSample

\* C9 (amended): default value at the default time, the sample's value at a
\* sampled time; with samples but no default value no value resolves at the
\* default time and the op contributes the identity.
C9_DefaultVsSampled ==
    /\ DefaultAndSampled
    /\ SamplesOnlyAtDefaultTime => LocalPart = <<0, 0, 0>>

\* an op with samples only, the earliest not zero, queried at the default
\* time
C9_Witness ==
    /\ SamplesOnlyAtDefaultTime
    /\ EarliestSample # <<0, 0, 0>>
    /\ LocalPart = <<0, 0, 0>>

\* the ops of the prim are translate, rotate, scale, in that order
IsTranslateRotateScale(ops) ==
    /\ Len(ops) = 3
    /\ IsConstOp(ops[1], "translate")
    /\ ops[2].type \in {"rotateX", "rotateY", "rotateZ"}
    /\ IsConstOp(ops[3], "scale")

\* no ancestor of the prim carries a scale or matrix op
UnscaledAbove(prim) ==
    \A a \in Ancestors(prim) :
        \A k \in 1..Len(stage.prim[a].ops) :
            stage.prim[a].ops[k].type \notin {"scale", "transform"}

Abs(x) == IF x < 0 THEN -x ELSE x

Decomposed == call.fn = "get_world_transform_components" /\ ~result.raised

NonNegativeScale == \A i \in 1..3 : result.value.scale[i] >= 0

\* C10 as stated: under unscaled ancestors the reported translation is t
\* and the reported scale is s for positive s; scale is never negative
C10_TranslationUnderUnscaled ==
    Decomposed =>
        /\ NonNegativeScale
        /\ IsTranslateRotateScale(QueriedOps) /\ UnscaledAbove(Queried) =>
              /\ result.value.translation = QueriedOps[1].default
              /\ (\A i \in 1..3 : QueriedOps[3].default[i] > 0)
                    => result.value.scale = QueriedOps[3].default

\* C10 (amended): the reported scale is the length of each row of the world
\* matrix's 3x3 block: for ops translate t, rotate, scale s under unscaled
\* ancestors it is |s| component-wise (s for positive s, the sign of a
\* mirroring scale lost), for a sheared matrix the row lengths; it is never
\* negative; the reported translation is t when no ancestor carries an op.
C10_Decomposition ==
    Decomposed =>
        /\ NonNegativeScale
        /\ IsTranslateRotateScale(QueriedOps) /\ UnscaledAbove(Queried) =>
              result.value.scale = <<Abs(QueriedOps[3].default[1]),
                                     Abs(QueriedOps[3].default[2]),
                                     Abs(QueriedOps[3].default[3])>>
        /\ IsTranslateRotateScale(QueriedOps) /\ UntransformedAbove(Queried) =>
              result.value.translation = QueriedOps[1].default
        /\ QueriedOps = <<TransformOp(ShearMatrix)>> /\ UnscaledAbove(Queried) =>
              result.value.scale = <<5, 1, 1>>

\* a mirrored translate-rotate-scale prim below a rotated prim: the scale
\* is reported without its sign
C10_Witness ==
    /\ Decomposed
    /\ IsTranslateRotateScale(QueriedOps)
    /\ QueriedOps[3].default = <<-2, 3, 4>>
    /\ Ancestors(Queried) # {}
    /\ UnscaledAbove(Queried)
    /\ ~UntransformedAbove(Queried)
    /\ result.value.scale = <<2, 3, 4>>
    /\ result.value.translation # QueriedOps[1].default

---------------------------------------------------------------------------
(* Degenerate scale: SpecDegenerate.                                       *)

\* the elements of the queried list that are transformable and lie under a
\* zero scale, their own or an ancestor's
DegeneratePositions ==
    {i \in 1..Len(call.prims) :
        IsXformable(call.prims[i]) /\ HasZeroScale(call.prims[i], call.time)}

\* C11 as the specification states it: a zero scale component on the
\* queried node or on an ancestor does not make the single or the batch
\* query raise, and a diagnostic is recorded for that query, that is,
\* something is printed beyond the batch's warnings for non-transformable
\* elements.
C11_DegenerateFlagged ==
    (IsSingleQuery \/ IsBatchQuery) /\ DegeneratePositions # {} =>
        /\ ~result.raised
        /\ Len(stdout) > Cardinality(BadPositions)

\* C11, as the code behaves: a zero scale component on a transformable
\* queried node or on an ancestor does not make the single or the batch
\* query raise, the degenerate transform is composed like any other, and
\* nothing is recorded for it: a single query prints nothing and a batch
\* prints only its warnings for non-transformable elements.
C11_DegenerateSilent ==
    (IsSingleQuery \/ IsBatchQuery) /\ DegeneratePositions # {} =>
        /\ ~result.raised
        /\ stdout = SelectSeq(call.prims, LAMBDA p : ~IsXformable(p))
        /\ IsBatchQuery =>
              \A i \in DegeneratePositions :
                 result.value[i] =
                    ExtractTranslation(
                        ComputeLocalToWorldTransform(call.prims[i], call.time))

\* a batch holding a prim translated by (1, 2, 3) under a parent scaled by
\* (2, 0, 2) and moved to (10, 0, 0): the prim lands on (12, 0, 6)
C11_Witness ==
    /\ IsBatchQuery
    /\ ~result.raised
    /\ \E i \in DegeneratePositions :
          /\ result.value[i] = Vec3d(12, 0, 6)
          /\ stage.prim[call.prims[i]].ops = <<TranslateOp(Vec3d(1, 2, 3))>>

---------------------------------------------------------------------------
(* Repeated calls: SpecHistory.                                            *)

\* C12: each entry point is deterministic: a call with the same entry
\* point, the same prims and the same time as a call the caller remembers,
\* made on the same stage, returns or raises the same and prints the same,
\* whatever calls and edits lie between the two.
C12_Deterministic ==
    call # NoCall /\ earlier.call = call /\ earlier.stage = stage =>
        /\ result = earlier.result
        /\ stdout = earlier.stdout

\* a batch over the animated prim and the Scope root repeated at time 2
C12_Witness ==
    /\ IsBatchQuery
    /\ earlier.call = call
    /\ earlier.stage = stage
    /\ call.time = TimeCode(2)
    /\ call.prims = <<MaxPrims, 1>>
    /\ result.value[1] # Zero3
    /\ stdout = <<1>>

---------------------------------------------------------------------------
(* Queries are read-only: Spec.                                            *)

\* C13: every query is read-only: whatever step the caller takes, a call
\* that returns or a call that raises, the stage (prims, parent links, ops
\* in order, default values, time samples, transformable flags) is the same
\* after it as before, and after a call the caller's list of prims is the
\* list it passed.
C13_ReadOnly ==
    [][/\ stage' = stage
       /\ call' # NoCall => input' = call'.prims]_vars

\* a batch over a Scope and a translated prim has returned with a warning,
\* and the list still names both
C13_Witness ==
    /\ IsBatchQuery
    /\ Len(call.prims) = 2
    /\ BadPositions = {1}
    /\ stdout = <<call.prims[1]>>
    /\ result.value[2] # Zero3
    /\ input = call.prims

---------------------------------------------------------------------------
(* The Omniverse Kit variant: SpecOmniverse.                               *)

\* C14: inside Omniverse Kit get_world_position_omniverse(prim, time)
\* returns the world position of a transformable prim evaluated at time:
\* the same as get_world_position(prim, time), so that a prim with a
\* time-sampled translation gets, at two times, the two positions.
C14_OmniverseAtTime ==
    /\ call.fn = "get_world_position_omniverse"
    /\ kit
    /\ IsXformable(Queried)
    => result = get_world_position(Queried, call.time)

---------------------------------------------------------------------------
(* The cache of a batch call: SpecHistory and Spec.                        *)

\* the transformable prims of the queried list with their ancestors
QueriedChains ==
    UNION {Chain(call.prims[i]) : i \in (1..Len(call.prims)) \ BadPositions}

\* C15: the cache of a batch call lives for that call only: it is bound to
\* the time of the call, it holds entries for prims this call asked for and
\* no others, nothing of it is held once the call has returned, and the
\* positions are those of the stage and the time of this call, whatever
\* batch calls were made before, at other times or on a stage edited since.
C15_CachePerCall ==
    /\ kept = NoCache
    /\ IsBatchQuery =>
          /\ batchCache.time = call.time
          /\ batchCache.valid \subseteq QueriedChains
          /\ \A i \in (1..Len(call.prims)) \ BadPositions :
                result.value[i] =
                    get_world_position(call.prims[i], call.time).value

\* the same list was queried before at another time or on another stage,
\* and the positions differ from those remembered
C15_Witness ==
    /\ IsBatchQuery
    /\ earlier.call.fn = "get_world_positions_batch"
    /\ earlier.call.prims = call.prims
    /\ earlier.call.time # call.time \/ earlier.stage # stage
    /\ call.prims = <<MaxPrims>>
    /\ earlier.result.value # result.value
    /\ batchCache.time = call.time

\* C16: within one batch call the world transform of a prim, queried or
\* ancestor, is computed at most once: the number of transforms computed is
\* the number of distinct prims on the queried chains, each of them has an
\* entry, and every entry equals the transform computed without a cache at
\* the time of the call.
C16_ComputedOnce ==
    IsBatchQuery =>
        /\ batchCache.valid = QueriedChains
        /\ computed = Cardinality(QueriedChains)
        /\ \A p \in batchCache.valid :
              batchCache.ctm[p] = ComputeLocalToWorldTransform(p, call.time)

\* two children of one translated parent: three transforms computed for
\* two chains of two prims each
C16_Witness ==
    /\ IsBatchQuery
    /\ call.prims = <<2, 3>>
    /\ BadPositions = {}
    /\ GetParent(2) = 1
    /\ GetParent(3) = 1
    /\ stage.prim[1].ops = <<TranslateOp(Vec3d(10, 0, 0))>>
    /\ computed = 3
    /\ batchCache.ctm[1].t = Vec3d(10, 0, 0)

---------------------------------------------------------------------------
(* Components against position: SpecAnimated.                              *)

\* C17: for a transformable prim and any time, the translation that
\* get_world_transform_components returns is the position that
\* get_world_position returns for the same prim and time.
C17_TranslationIsPosition ==
    call.fn = "get_world_transform_components" /\ IsXformable(Queried) =>
        /\ ~result.raised
        /\ result.value.translation =
              get_world_position(Queried, call.time).value

\* the components of a prim animated between (4, 0, 0) at time 2 and
\* (8, 4, 0) at time 4, with the default value (12, 0, 0), asked at time 3
C17_Witness ==
    /\ call.fn = "get_world_transform_components"
    /\ call.time = TimeCode(3)
    /\ Queried = MaxPrims
    /\ QueriedOps[1].hasDefault
    /\ DOMAIN QueriedOps[1].samples = {2, 4}
    /\ QueriedOps[1].samples[2] = Vec3d(4, 0, 0)
    /\ QueriedOps[1].samples[4] = Vec3d(8, 4, 0)
    /\ result.value.translation =
          VecAdd(Vec3d(6, 2, 0), SumTranslations(GetParent(Queried)))

===========================================================================
